---------------------------- MODULE Spec2Model ----------------------------
(***************************************************************************)
(* A model of delta/utilities.py: the Rectangle region-of-interest class,  *)
(* the GDAL pixel-type lookups and the task polling loop.                  *)
(*                                                                         *)
(* Python values are modelled as follows.  Integers are TLA+ integers      *)
(* (Python integers do not overflow).  An argument that may be None is a   *)
(* sequence: <<>> is None and <<v>> is the value v.  A string that the     *)
(* code transforms is a sequence of one-character strings.  A call that    *)
(* may raise yields a record [outcome, ret] with outcome "ok" or the name  *)
(* of the exception.                                                       *)
(***************************************************************************)
EXTENDS Integers, Sequences, FiniteSets, TLC

VARIABLES
    rect,          \* the Rectangle object: its four bounds
    call,          \* the last Rectangle operation, its arguments and result
    gdalCall,      \* the last pixel-type lookup, its argument and result
    numTasks,      \* len(taskHandles)
    ready,         \* ready[t]: what task.ready() answers for handle t
    interactive,   \* argument interactive
    quitKey,       \* argument quitKey
    pc,            \* position in waitForTaskCompletionOrKeypress
    notReady,      \* local notReady
    idx,           \* position of the for loop in taskHandles
    keypress,      \* local keypress
    waited,        \* history: a wait has been performed
    polled,        \* history: a poll of the handles has begun
    polledSinceWait, \* history: task.ready() was called since the last wait
    observed       \* history: observed[t] is the last answer of task t

rectVars == <<rect, call>>
gdalVars == <<gdalCall>>
waitVars == <<numTasks, ready, interactive, quitKey, pc, notReady, idx,
              keypress, waited, polled, polledSinceWait, observed>>
vars == <<rectVars, gdalVars, waitVars>>

(***************************************************************************)
(* Bounds of the model.                                                    *)
(***************************************************************************)
MaxCoord    == 2
MaxOther    == 1
MaxExpand   == 1
MaxSize     == 2
MaxGdalType == 13
MaxTasks    == 2

Coords        == (0 - MaxCoord)..MaxCoord
OtherCoords   == 0..MaxOther
Deltas        == (0 - 1)..1
ExpandAmounts == 0..MaxExpand
Sizes         == (0 - 1)..MaxSize
Scales        == (0 - 1)..2

None      == <<>>
Some(v)   == <<v>>
OptOf(S)  == {None} \cup {Some(v) : v \in S}

Return(v) == [outcome |-> "ok", ret |-> v]
Raise(e)  == [outcome |-> e, ret |-> None]

max(a, b) == IF a >= b THEN a ELSE b
min(a, b) == IF a <= b THEN a ELSE b

(***************************************************************************)
(* class Rectangle                                                         *)
(***************************************************************************)
\* Variant: the width and height tests written >= 0.
RectangleInit_NonNegative(min_x, min_y, max_x, max_y, w, h) ==
    [min_x |-> min_x,
     min_y |-> min_y,
     max_x |-> IF w >= 0 THEN min_x + w ELSE max_x,
     max_y |-> IF h >= 0 THEN min_y + h ELSE max_y]

RectangleInit(min_x, min_y, max_x, max_y, w, h) ==
    [min_x |-> min_x,
     min_y |-> min_y,
     max_x |-> IF w > 0 THEN min_x + w ELSE max_x,
     max_y |-> IF h > 0 THEN min_y + h ELSE max_y]

get_bounds(self) == <<self.min_x, self.max_x, self.min_y, self.max_y>>

width(self)  == self.max_x - self.min_x
height(self) == self.max_y - self.min_y

has_area(self) == (width(self) > 0) /\ (height(self) > 0)

perimeter(self) == 2 * width(self) + 2 * height(self)

\* Variant: the has_area test left out.
area_Unchecked(self) == height(self) * width(self)

area(self) == IF ~has_area(self) THEN 0 ELSE height(self) * width(self)

get_min_coord(self) == <<self.min_x, self.min_y>>
get_max_coord(self) == <<self.max_x, self.max_y>>

shift(self, dx, dy) ==
    [min_x |-> self.min_x + dx,
     max_x |-> self.max_x + dx,
     min_y |-> self.min_y + dy,
     max_y |-> self.max_y + dy]

scale_by_constant(self, xScale, yScaleArg) ==
    LET yScale == IF yScaleArg = None THEN xScale ELSE yScaleArg[1]
    IN  [min_x |-> self.min_x * xScale,
         max_x |-> self.max_x * xScale,
         min_y |-> self.min_y * yScale,
         max_y |-> self.max_y * yScale]

\* Variant: "if not right" and "if not up" in place of the tests for None.
expand_Falsy(self, left, down, rightArg, upArg) ==
    LET right == IF rightArg = None \/ rightArg = Some(0)
                 THEN left ELSE rightArg[1]
        up    == IF upArg = None \/ upArg = Some(0)
                 THEN down ELSE upArg[1]
    IN  [min_x |-> self.min_x - left,
         min_y |-> self.min_y - down,
         max_x |-> self.max_x + right,
         max_y |-> self.max_y + up]

expand(self, left, down, rightArg, upArg) ==
    LET right == IF rightArg = None THEN left ELSE rightArg[1]
        up    == IF upArg = None THEN down ELSE upArg[1]
    IN  [min_x |-> self.min_x - left,
         min_y |-> self.min_y - down,
         max_x |-> self.max_x + right,
         max_y |-> self.max_y + up]

\* The bounds of the model are integers, so isinstance(self.min_x, float)
\* is false and the else branch sets delta.
delta == 1

expand_to_contain(self, x, y) ==
    [min_x |-> IF x < self.min_x THEN x ELSE self.min_x,
     min_y |-> IF y < self.min_y THEN y ELSE self.min_y,
     max_x |-> IF x > self.max_x THEN x + delta ELSE self.max_x,
     max_y |-> IF y > self.max_y THEN y + delta ELSE self.max_y]

\* Variant: the upper y bound taken with max.
get_intersection_MaxOfMaxY(self, other_rect) ==
    RectangleInit(max(self.min_x, other_rect.min_x),
                  max(self.min_y, other_rect.min_y),
                  min(self.max_x, other_rect.max_x),
                  max(self.max_y, other_rect.max_y),
                  0, 0)

get_intersection(self, other_rect) ==
    RectangleInit(max(self.min_x, other_rect.min_x),
                  max(self.min_y, other_rect.min_y),
                  min(self.max_x, other_rect.max_x),
                  min(self.max_y, other_rect.max_y),
                  0, 0)

contains(self, other_rect) ==
    IF self.min_x > other_rect.min_x THEN FALSE
    ELSE IF self.min_y > other_rect.min_y THEN FALSE
    ELSE IF self.max_x < other_rect.max_x THEN FALSE
    ELSE IF self.max_y < other_rect.max_y THEN FALSE
    ELSE TRUE

\* Looking up and calling a method that takes no argument on a Rectangle:
\* a name the class does not define raises AttributeError.
CallMethod(obj, name) ==
    CASE name = "get_bounds"    -> Return(get_bounds(obj))
      [] name = "width"         -> Return(width(obj))
      [] name = "height"        -> Return(height(obj))
      [] name = "has_area"      -> Return(has_area(obj))
      [] name = "perimeter"     -> Return(perimeter(obj))
      [] name = "area"          -> Return(area(obj))
      [] name = "get_min_coord" -> Return(get_min_coord(obj))
      [] name = "get_max_coord" -> Return(get_max_coord(obj))
      [] OTHER                  -> Raise("AttributeError")

overlaps(self, other_rect) ==
    LET overlap_area == get_intersection(self, other_rect)
    IN  CallMethod(overlap_area, "hasArea")

(***************************************************************************)
(* The variables of the parts of the module that a specification does not  *)
(* exercise stay at these values.                                          *)
(***************************************************************************)
RectIdle ==
    /\ rect = RectangleInit(0, 0, 0, 0, 0, 0)
    /\ call = [op |-> "none", before |-> rect, args |-> None,
               outcome |-> "ok", ret |-> None]

GdalIdle ==
    gdalCall = [fn |-> "none", arg |-> None, outcome |-> "ok", ret |-> None]

WaitIdle ==
    /\ numTasks = 0
    /\ ready = <<>>
    /\ interactive = FALSE
    /\ quitKey = "q"
    /\ pc = "idle"
    /\ notReady = 0
    /\ idx = 0
    /\ keypress = "unset"
    /\ waited = FALSE
    /\ polled = FALSE
    /\ polledSinceWait = FALSE
    /\ observed = <<>>

(***************************************************************************)
(* The Rectangle as a state machine: rect is the object, call records the  *)
(* last operation applied to it, the object it was applied to, its         *)
(* arguments and its result.                                               *)
(***************************************************************************)
InRange(r) ==
    /\ r.min_x \in Coords
    /\ r.min_y \in Coords
    /\ r.max_x \in Coords
    /\ r.max_y \in Coords

OtherRects ==
    [min_x : OtherCoords, min_y : OtherCoords,
     max_x : OtherCoords, max_y : OtherCoords]

Called(op, args, res) ==
    /\ call' = [op |-> op, before |-> rect, args |-> args,
                outcome |-> res.outcome, ret |-> res.ret]
    /\ UNCHANGED <<gdalVars, waitVars>>

Query(op) ==
    /\ Called(op, None, CallMethod(rect, op))
    /\ UNCHANGED rect

Mutate(op, args, new) ==
    /\ InRange(new)
    /\ rect' = new
    /\ Called(op, args, Return(None))

Init ==
    \E min_x \in Coords, min_y \in Coords, max_x \in Coords, max_y \in Coords,
       w \in Sizes, h \in Sizes :
        /\ rect = RectangleInit(min_x, min_y, max_x, max_y, w, h)
        /\ InRange(rect)
        /\ call = [op |-> "__init__", before |-> rect,
                   args |-> [min_x |-> min_x, min_y |-> min_y,
                             max_x |-> max_x, max_y |-> max_y,
                             width |-> w, height |-> h],
                   outcome |-> "ok", ret |-> None]
        /\ GdalIdle
        /\ WaitIdle

GetBounds   == Query("get_bounds")
Width       == Query("width")
Height      == Query("height")
HasArea     == Query("has_area")
Perimeter   == Query("perimeter")
Area        == Query("area")
GetMinCoord == Query("get_min_coord")
GetMaxCoord == Query("get_max_coord")

Shift ==
    \E dx \in Deltas, dy \in Deltas :
        Mutate("shift", [dx |-> dx, dy |-> dy], shift(rect, dx, dy))

ScaleByConstant ==
    \E xScale \in Scales, yScale \in OptOf(Scales) :
        Mutate("scale_by_constant", [xScale |-> xScale, yScale |-> yScale],
               scale_by_constant(rect, xScale, yScale))

Expand ==
    \E left \in ExpandAmounts, down \in ExpandAmounts,
       right \in OptOf(ExpandAmounts), up \in OptOf(ExpandAmounts) :
        Mutate("expand",
               [left |-> left, down |-> down, right |-> right, up |-> up],
               expand(rect, left, down, right, up))

ExpandToContain ==
    \E x \in Coords, y \in Coords :
        Mutate("expand_to_contain", [x |-> x, y |-> y],
               expand_to_contain(rect, x, y))

GetIntersection ==
    \E other \in OtherRects :
        /\ Called("get_intersection", other,
                  Return(get_intersection(rect, other)))
        /\ UNCHANGED rect

Contains ==
    \E other \in OtherRects :
        /\ Called("contains", other, Return(contains(rect, other)))
        /\ UNCHANGED rect

Overlaps ==
    \E other \in OtherRects :
        /\ Called("overlaps", other, overlaps(rect, other))
        /\ UNCHANGED rect

Next ==
    \/ GetBounds
    \/ Width
    \/ Height
    \/ HasArea
    \/ Perimeter
    \/ Area
    \/ GetMinCoord
    \/ GetMaxCoord
    \/ Shift
    \/ ScaleByConstant
    \/ Expand
    \/ ExpandToContain
    \/ GetIntersection
    \/ Contains
    \/ Overlaps

Spec == Init /\ [][Next]_vars

(***************************************************************************)
(* Pixel-type lookups.  The GDT_ values are the GDAL type codes that the   *)
(* gdal module exports under the names the code uses.                      *)
(***************************************************************************)
GDT_Byte    == 1
GDT_UInt16  == 2
GDT_UInt32  == 4
GDT_Float32 == 6

GdalTypes == 0..MaxGdalType

\* dict.get(key): the value stored under key, None when there is none.
DictGet(d, key) == IF key \in DOMAIN d THEN Some(d[key]) ELSE None

results ==
    [t \in {GDT_Byte, GDT_UInt16, GDT_UInt32, GDT_Float32} |->
        CASE t = GDT_Byte    -> 1
          [] t = GDT_UInt16  -> 2
          [] t = GDT_UInt32  -> 4
          [] t = GDT_Float32 -> 4]

\* Variant: results[gdal_type] in place of results.get(gdal_type).
get_num_bytes_from_gdal_type_Subscript(gdal_type) ==
    IF gdal_type \in DOMAIN results
    THEN Return(Some(results[gdal_type]))
    ELSE Raise("KeyError")

get_num_bytes_from_gdal_type(gdal_type) == Return(DictGet(results, gdal_type))

Uppers == <<"A", "B", "C", "D", "E", "F", "G", "H", "I", "J", "K", "L", "M",
            "N", "O", "P", "Q", "R", "S", "T", "U", "V", "W", "X", "Y", "Z">>
Lowers == <<"a", "b", "c", "d", "e", "f", "g", "h", "i", "j", "k", "l", "m",
            "n", "o", "p", "q", "r", "s", "t", "u", "v", "w", "x", "y", "z">>

LowerChar(c) ==
    IF \E i \in DOMAIN Uppers : Uppers[i] = c
    THEN Lowers[CHOOSE i \in DOMAIN Uppers : Uppers[i] = c]
    ELSE c

\* str.lower()
lower(str) == [i \in 1..Len(str) |-> LowerChar(str[i])]

get_gdal_data_type(type_str) ==
    LET s == lower(type_str)
    IN  IF (s = <<"b", "y", "t", "e">>) \/ (s = <<"u", "i", "n", "t", "8">>)
        THEN Return(GDT_Byte)
        ELSE IF (s = <<"s", "h", "o", "r", "t">>)
                \/ (s = <<"u", "i", "n", "t", "1", "6">>)
        THEN Return(GDT_UInt16)
        ELSE IF s = <<"u", "i", "n", "t", "3", "2">>
        THEN Return(GDT_UInt32)
        ELSE IF (s = <<"f", "l", "o", "a", "t">>)
                \/ (s = <<"f", "l", "o", "a", "t", "3", "2">>)
        THEN Return(GDT_Float32)
        ELSE Raise("Exception")

\* The type strings given to get_gdal_data_type: the words below in every
\* mix of upper and lower case.
UpperChar(c) ==
    IF \E i \in DOMAIN Lowers : Lowers[i] = c
    THEN Uppers[CHOOSE i \in DOMAIN Lowers : Lowers[i] = c]
    ELSE c

Words ==
    { <<"b", "y", "t", "e">>, <<"u", "i", "n", "t", "8">>,
      <<"s", "h", "o", "r", "t">>, <<"u", "i", "n", "t", "1", "6">>,
      <<"u", "i", "n", "t", "3", "2">>, <<"f", "l", "o", "a", "t">>,
      <<"f", "l", "o", "a", "t", "3", "2">>,
      <<"i", "n", "t", "1", "6">>, <<"d", "o", "u", "b", "l", "e">>,
      <<"b", "y", "t", "e", "s">>, <<>> }

TypeStrings ==
    UNION { { [i \in 1..Len(w) |-> IF m[i] THEN UpperChar(w[i]) ELSE w[i]] :
                m \in [1..Len(w) -> BOOLEAN] } : w \in Words }

GetNumBytesFromGdalType ==
    \E gdal_type \in GdalTypes :
        LET res == get_num_bytes_from_gdal_type(gdal_type)
        IN  /\ gdalCall' = [fn |-> "get_num_bytes_from_gdal_type",
                            arg |-> gdal_type,
                            outcome |-> res.outcome, ret |-> res.ret]
            /\ UNCHANGED <<rectVars, waitVars>>

GetGdalDataType ==
    \E type_str \in TypeStrings :
        LET res == get_gdal_data_type(type_str)
        IN  /\ gdalCall' = [fn |-> "get_gdal_data_type",
                            arg |-> type_str,
                            outcome |-> res.outcome, ret |-> res.ret]
            /\ UNCHANGED <<rectVars, waitVars>>

InitGdal == RectIdle /\ GdalIdle /\ WaitIdle

NextGdal ==
    \/ GetNumBytesFromGdalType
    \/ GetGdalDataType

SpecGdal == InitGdal /\ [][NextGdal]_vars

(***************************************************************************)
(* waitForTaskCompletionOrKeypress(taskHandles, logger, interactive,       *)
(* quitKey, sleepTime).  The handles are 1..numTasks.  A task becomes      *)
(* ready on its own and stays ready.  nonBlockingRawInput returns the line *)
(* typed within the timeout, or '' when the alarm goes off first; the      *)
(* model takes sleepTime >= 1, for which the alarm is armed.               *)
(***************************************************************************)
Tasks == 1..numTasks

\* What nonBlockingRawInput can return.
Inputs == {"", "q", "x"}
QuitKeys == {"q", "x", ""}

InitWait ==
    /\ RectIdle
    /\ GdalIdle
    /\ numTasks \in 0..MaxTasks
    /\ ready \in [1..numTasks -> BOOLEAN]
    /\ interactive \in BOOLEAN
    /\ quitKey \in QuitKeys
    /\ pc = "start"
    /\ notReady = 0
    /\ idx = 0
    /\ keypress = "unset"
    /\ waited = FALSE
    /\ polled = FALSE
    /\ polledSinceWait = FALSE
    /\ observed = [t \in 1..numTasks |-> "unpolled"]

\* notReady = len(taskHandles)
Start ==
    /\ pc = "start"
    /\ notReady' = numTasks
    /\ pc' = "while"
    /\ UNCHANGED <<rectVars, gdalVars, numTasks, ready, interactive, quitKey,
                   idx, keypress, waited, polled, polledSinceWait, observed>>

\* while notReady > 0: ... return
WhileTest ==
    /\ pc = "while"
    /\ pc' = IF notReady > 0 THEN "wait" ELSE "done"
    /\ UNCHANGED <<rectVars, gdalVars, numTasks, ready, interactive, quitKey,
                   notReady, idx, keypress, waited, polled, polledSinceWait,
                   observed>>

\* if interactive: keypress = nonBlockingRawInput(...);
\* if keypress == quitKey: break
WaitInteractive ==
    /\ pc = "wait"
    /\ interactive
    /\ \E text \in Inputs :
        /\ keypress' = text
        /\ pc' = IF text = quitKey THEN "done" ELSE "usage"
    /\ waited' = TRUE
    /\ polledSinceWait' = FALSE
    /\ UNCHANGED <<rectVars, gdalVars, numTasks, ready, interactive, quitKey,
                   notReady, idx, polled, observed>>

\* else: time.sleep(sleepTime)
WaitSleep ==
    /\ pc = "wait"
    /\ ~interactive
    /\ pc' = "usage"
    /\ waited' = TRUE
    /\ polledSinceWait' = FALSE
    /\ UNCHANGED <<rectVars, gdalVars, numTasks, ready, interactive, quitKey,
                   notReady, idx, keypress, polled, observed>>

\* the resource usage message, then notReady = 0 and the for loop begins
ResetCount ==
    /\ pc = "usage"
    /\ notReady' = 0
    /\ idx' = 1
    /\ polled' = TRUE
    /\ pc' = "poll"
    /\ UNCHANGED <<rectVars, gdalVars, numTasks, ready, interactive, quitKey,
                   keypress, waited, polledSinceWait, observed>>

\* Variant: the test of task.ready() inverted.
PollTask_CountsReady ==
    /\ pc = "poll"
    /\ idx \in Tasks
    /\ notReady' = IF ready[idx] THEN notReady + 1 ELSE notReady
    /\ observed' = [observed EXCEPT
                       ![idx] = IF ready[idx] THEN "ready" ELSE "notready"]
    /\ polledSinceWait' = TRUE
    /\ idx' = idx + 1
    /\ pc' = IF idx = numTasks THEN "while" ELSE "poll"
    /\ UNCHANGED <<rectVars, gdalVars, numTasks, ready, interactive, quitKey,
                   keypress, waited, polled>>

\* one iteration of: for task in taskHandles: if not task.ready(): notReady += 1
PollTask ==
    /\ pc = "poll"
    /\ idx \in Tasks
    /\ notReady' = IF ~ready[idx] THEN notReady + 1 ELSE notReady
    /\ observed' = [observed EXCEPT
                       ![idx] = IF ready[idx] THEN "ready" ELSE "notready"]
    /\ polledSinceWait' = TRUE
    /\ idx' = idx + 1
    /\ pc' = IF idx = numTasks THEN "while" ELSE "poll"
    /\ UNCHANGED <<rectVars, gdalVars, numTasks, ready, interactive, quitKey,
                   keypress, waited, polled>>

\* The environment: a task completes.
TaskCompletes ==
    /\ pc # "idle"
    /\ \E t \in Tasks :
        /\ ~ready[t]
        /\ ready' = [ready EXCEPT ![t] = TRUE]
    /\ UNCHANGED <<rectVars, gdalVars, numTasks, interactive, quitKey, pc,
                   notReady, idx, keypress, waited, polled, polledSinceWait,
                   observed>>

WaitStep ==
    \/ Start
    \/ WhileTest
    \/ WaitInteractive
    \/ WaitSleep
    \/ ResetCount
    \/ PollTask

NextWait ==
    \/ WaitStep
    \/ TaskCompletes

\* The function keeps running: the sleep ends, the alarm goes off.
SpecWait == InitWait /\ [][NextWait]_vars /\ WF_vars(WaitStep)

(***************************************************************************)
(* Properties of the Rectangle, checked under Spec.                        *)
(***************************************************************************)

\* C1: a.overlaps(b) returns a boolean equal to
\* a.get_intersection(b).has_area(), for all rectangles a and b.
C1_OverlapsIsIntersectionHasArea ==
    call.op = "overlaps" =>
        /\ call.outcome = "ok"
        /\ call.ret = has_area(get_intersection(call.before, call.args))

\* C2: expand_to_contain(x, y) with x equal to the current max_x leaves
\* max_x = x + 1, and with y equal to the current max_y leaves max_y = y + 1.
C2_GrowsWhenPointOnMax ==
    call.op = "expand_to_contain" =>
        /\ (call.args.x = call.before.max_x => rect.max_x = call.args.x + 1)
        /\ (call.args.y = call.before.max_y => rect.max_y = call.args.y + 1)

\* C3: after expand_to_contain(x, y) the point lies in the half-open region:
\* min_x <= x < max_x and min_y <= y < max_y.
C3_PointCoveredAfterExpandToContain ==
    call.op = "expand_to_contain" =>
        /\ rect.min_x <= call.args.x
        /\ call.args.x < rect.max_x
        /\ rect.min_y <= call.args.y
        /\ call.args.y < rect.max_y

\* C4: no Rectangle operation ends in an error, whatever the four bounds.
C4_NoOperationRaises == call.outcome = "ok"

\* C6: when a.contains(b), a.get_intersection(b) has the four bounds of b.
C6_IntersectionOfContainedIsOther ==
    (call.op = "get_intersection" /\ contains(call.before, call.args)) =>
        /\ call.outcome = "ok"
        /\ call.ret.min_x = call.args.min_x
        /\ call.ret.min_y = call.args.min_y
        /\ call.ret.max_x = call.args.max_x
        /\ call.ret.max_y = call.args.max_y

C6_Witness ==
    /\ call.op = "get_intersection"
    /\ contains(call.before, call.args)
    /\ call.before # call.args
    /\ ~has_area(call.args)
    /\ call.ret = call.args

\* C7: construction sets max_x to min_x + width when width > 0 and to the
\* supplied max_x otherwise, max_y likewise with height, and min_x, min_y to
\* the supplied values; Rectangle(0,0,width=5,height=3) has area 15 and
\* Rectangle(0,0,max_x=0,max_y=0) has no area.
C7_ConstructionBounds ==
    /\ call.op = "__init__" =>
        /\ rect.min_x = call.args.min_x
        /\ rect.min_y = call.args.min_y
        /\ (call.args.width > 0 =>
                rect.max_x = call.args.min_x + call.args.width)
        /\ (call.args.width <= 0 => rect.max_x = call.args.max_x)
        /\ (call.args.height > 0 =>
                rect.max_y = call.args.min_y + call.args.height)
        /\ (call.args.height <= 0 => rect.max_y = call.args.max_y)
    /\ has_area(RectangleInit(0, 0, 0, 0, 5, 3))
    /\ area(RectangleInit(0, 0, 0, 0, 5, 3)) = 15
    /\ ~has_area(RectangleInit(0, 0, 0, 0, 0, 0))

C7_Witness ==
    /\ call.op = "__init__"
    /\ call.args.width > 0
    /\ call.args.max_x # call.args.min_x + call.args.width
    /\ rect.max_x = call.args.min_x + call.args.width
    /\ call.args.height = 0
    /\ call.args.max_y # call.args.min_y
    /\ rect.max_y = call.args.max_y

\* C8: area() is width() * height() when both are positive and 0 otherwise;
\* it is never negative, and is 0 when width and height are both negative.
C8_AreaIsProductOrZero ==
    call.op = "area" =>
        LET w == call.before.max_x - call.before.min_x
            h == call.before.max_y - call.before.min_y
        IN  /\ call.outcome = "ok"
            /\ call.ret = (IF w > 0 /\ h > 0 THEN w * h ELSE 0)
            /\ call.ret >= 0

C8_Witness ==
    /\ call.op = "area"
    /\ call.before.max_x < call.before.min_x
    /\ call.before.max_y < call.before.min_y
    /\ call.ret = 0

\* C9: expand(left, down, right, up) subtracts left from min_x and down from
\* min_y and adds right to max_x and up to max_y; an omitted right is left,
\* an omitted up is down, and a value passed explicitly, 0 included, is used
\* as given.  Rectangle(0,0,10,10).expand(2,2) gives (-2,-2,12,12) and
\* expand(2,2,1,1) gives (-2,-2,11,11).
C9_ExpandBounds ==
    /\ call.op = "expand" =>
        /\ rect.min_x = call.before.min_x - call.args.left
        /\ rect.min_y = call.before.min_y - call.args.down
        /\ (call.args.right = None =>
                rect.max_x = call.before.max_x + call.args.left)
        /\ (call.args.right # None =>
                rect.max_x = call.before.max_x + call.args.right[1])
        /\ (call.args.up = None =>
                rect.max_y = call.before.max_y + call.args.down)
        /\ (call.args.up # None =>
                rect.max_y = call.before.max_y + call.args.up[1])
    /\ expand(RectangleInit(0, 0, 10, 10, 0, 0), 2, 2, None, None)
         = [min_x |-> 0 - 2, min_y |-> 0 - 2, max_x |-> 12, max_y |-> 12]
    /\ expand(RectangleInit(0, 0, 10, 10, 0, 0), 2, 2, Some(1), Some(1))
         = [min_x |-> 0 - 2, min_y |-> 0 - 2, max_x |-> 11, max_y |-> 11]

C9_Witness ==
    /\ call.op = "expand"
    /\ call.args.left = 1
    /\ call.args.right = Some(0)
    /\ rect.max_x = call.before.max_x
    /\ call.args.down = 1
    /\ call.args.up = None
    /\ rect.max_y = call.before.max_y + 1

(***************************************************************************)
(* Properties of the pixel-type lookups, checked under SpecGdal.           *)
(***************************************************************************)
KnownGdalTypes == {GDT_Byte, GDT_UInt16, GDT_UInt32, GDT_Float32}

KnownTypeSizes ==
    gdalCall.fn = "get_num_bytes_from_gdal_type" =>
        /\ (gdalCall.arg = GDT_Byte =>
                gdalCall.outcome = "ok" /\ gdalCall.ret = Some(1))
        /\ (gdalCall.arg = GDT_UInt16 =>
                gdalCall.outcome = "ok" /\ gdalCall.ret = Some(2))
        /\ (gdalCall.arg = GDT_UInt32 =>
                gdalCall.outcome = "ok" /\ gdalCall.ret = Some(4))
        /\ (gdalCall.arg = GDT_Float32 =>
                gdalCall.outcome = "ok" /\ gdalCall.ret = Some(4))

\* C5: get_num_bytes_from_gdal_type returns the byte size 1, 2, 4, 4 for
\* Byte, UInt16, UInt32, Float32 and ends in an error, returning no value,
\* for any other type identifier.
C5_UnknownTypeFails ==
    /\ KnownTypeSizes
    /\ (gdalCall.fn = "get_num_bytes_from_gdal_type"
        /\ gdalCall.arg \notin KnownGdalTypes) => gdalCall.outcome # "ok"

\* C5 as amended: get_num_bytes_from_gdal_type returns the byte size 1, 2, 4,
\* 4 for Byte, UInt16, UInt32, Float32 and returns None, without an error,
\* for any other type identifier.
C5_UnknownTypeReturnsNone ==
    /\ KnownTypeSizes
    /\ (gdalCall.fn = "get_num_bytes_from_gdal_type"
        /\ gdalCall.arg \notin KnownGdalTypes) =>
            (gdalCall.outcome = "ok" /\ gdalCall.ret = None)

C5_Witness ==
    /\ gdalCall.fn = "get_num_bytes_from_gdal_type"
    /\ gdalCall.arg \notin KnownGdalTypes
    /\ gdalCall.outcome = "ok"
    /\ gdalCall.ret = None

(***************************************************************************)
(* Properties of waitForTaskCompletionOrKeypress, checked under SpecWait.  *)
(***************************************************************************)
AllTasksReady == \A t \in Tasks : ready[t]

ReturnedOnEmptyList == numTasks = 0 /\ ~waited /\ ~polled

ReturnedOnAllReady ==
    /\ polled
    /\ polledSinceWait
    /\ \A t \in Tasks : observed[t] = "ready"

ReturnedOnQuitKey ==
    /\ interactive
    /\ waited
    /\ keypress = quitKey
    /\ ~polledSinceWait

C10_ReturnSituations ==
    /\ pc = "done" =>
        (ReturnedOnEmptyList \/ ReturnedOnAllReady \/ ReturnedOnQuitKey)
    /\ polled => waited
    /\ (pc = "done" /\ numTasks > 0) => waited

=============================================================================
